---- MODULE Spec2Model ----
(***************************************************************************)
(* A model of the bandit blacklist matcher (bandit/core/blacklisting.py),  *)
(* the B113 and B507 plugins and the command-line driver's exit policy     *)
(* (bandit/cli/main.py).                                                   *)
(*                                                                         *)
(* Python strings that the code inspects character by character (names,    *)
(* glob patterns, message templates) are sequences of one-character        *)
(* strings.  Python's None and values that may be None are tagged records. *)
(***************************************************************************)
EXTENDS Integers, Sequences, FiniteSets, TLC

VARIABLES
    pc,         \* position of the program under analysis
    context,    \* blacklist(): the context argument (node and facade answers)
    config,     \* blacklist(): the config argument (node type -> rule list)
    result,     \* value returned (or exception raised) by the function applied
    args,       \* main(): the parsed argument namespace
    mgr,        \* main(): the BanditManager (results, tests loaded)
    locals,     \* main(): local variables (sev_level, conf_level)
    outputs,    \* main(): the output_results calls made so far
    exit_filter,\* main(): the filter handed to results_count
    status,     \* main(): the process exit status
    events      \* main(): the calls made on its collaborators and the errors
                \* logged, in order

vars ==
    <<pc, context, config, result, args, mgr, locals, outputs, exit_filter, status,
      events>>

(***************************************************************************)
(* Bounds of the model.                                                    *)
(***************************************************************************)
MaxRules == 2
MaxNames == 2
MaxResults == 2
MaxOutputs == 2

(***************************************************************************)
(* Values.                                                                 *)
(***************************************************************************)
None == [t |-> "none"]
Str(s) == [t |-> "str", v |-> s]
Raise(e) == [t |-> "raise", exc |-> e]
Pending == [t |-> "pending"]

\* dict.get(key, default)
DictGet(d, k, default) == IF k \in DOMAIN d THEN d[k] ELSE default

EmptyDict == [k \in {} |-> None]

(***************************************************************************)
(* The strings of the model.                                               *)
(***************************************************************************)
S_os == <<"o", "s">>
S_os_path == <<"o", "s", ".", "p", "a", "t", "h">>
S_path == <<"p", "a", "t", "h">>
S_p == <<"p">>
S_ot == <<"o", "t">>
S_x == <<"x">>
S_empty == <<>>
S_UNKNOWN == <<"U", "N", "K", "N", "O", "W", "N">>
S_import_module ==
    <<"i", "m", "p", "o", "r", "t", "l", "i", "b", ".",
      "i", "m", "p", "o", "r", "t", "_", "m", "o", "d", "u", "l", "e">>
S_dunder_import ==
    <<"i", "m", "p", "o", "r", "t", "l", "i", "b", ".",
      "_", "_", "i", "m", "p", "o", "r", "t", "_", "_">>
Placeholder == <<"{", "n", "a", "m", "e", "}">>

P_os_star == <<"o", "s", "*">>
P_star == <<"*">>
P_os_pat_q == <<"o", "s", ".", "p", "a", "t", "?">>
P_o_class == <<"o", "[", "s", "x", "]">>
P_o_negclass == <<"o", "[", "!", "s", "]">>
P_open_bracket == <<"o", "[", "s">>

(***************************************************************************)
(* str.startswith                                                          *)
(***************************************************************************)
StartsWith(s, prefix) ==
    /\ Len(prefix) <= Len(s)
    /\ SubSeq(s, 1, Len(prefix)) = prefix

(***************************************************************************)
(* fnmatch.fnmatch(name, pat) on a POSIX system (normcase is the identity  *)
(* there): the pattern is translated to a regular expression anchored at   *)
(* both ends, '*' -> '.*', '?' -> '.', '[seq]' / '[!seq]' -> a character   *)
(* class, an unclosed '[' and every other character -> itself.  The        *)
(* strings of the model hold no '-' and no backslash, so character ranges  *)
(* and escapes do not arise.                                               *)
(***************************************************************************)
RECURSIVE SkipToBracket(_, _)
SkipToBracket(pat, j) ==
    IF j > Len(pat) THEN 0
    ELSE IF pat[j] = "]" THEN j
    ELSE SkipToBracket(pat, j + 1)

\* Index of the ']' that closes the class opened at pat[i], or 0 if unclosed.
ClassEnd(pat, i) ==
    LET j0 == i + 1
        j1 == IF j0 <= Len(pat) /\ pat[j0] = "!" THEN j0 + 1 ELSE j0
        j2 == IF j1 <= Len(pat) /\ pat[j1] = "]" THEN j1 + 1 ELSE j1
    IN  SkipToBracket(pat, j2)

InClass(c, stuff) ==
    IF stuff[1] = "!"
    THEN \A k \in 2..Len(stuff) : stuff[k] # c
    ELSE \E k \in 1..Len(stuff) : stuff[k] = c

RECURSIVE GlobFrom(_, _, _, _)
GlobFrom(name, i, pat, j) ==
    IF j > Len(pat) THEN i > Len(name)
    ELSE IF pat[j] = "*" THEN
        \/ GlobFrom(name, i, pat, j + 1)
        \/ i <= Len(name) /\ GlobFrom(name, i + 1, pat, j)
    ELSE IF pat[j] = "?" THEN
        i <= Len(name) /\ GlobFrom(name, i + 1, pat, j + 1)
    ELSE IF pat[j] = "[" /\ ClassEnd(pat, j) # 0 THEN
        /\ i <= Len(name)
        /\ InClass(name[i], SubSeq(pat, j + 1, ClassEnd(pat, j) - 1))
        /\ GlobFrom(name, i + 1, pat, ClassEnd(pat, j) + 1)
    ELSE
        i <= Len(name) /\ name[i] = pat[j] /\ GlobFrom(name, i + 1, pat, j + 1)

fnmatch(name, pat) == GlobFrom(name, 1, pat, 1)

(***************************************************************************)
(* str.replace(old, new): every non-overlapping occurrence, left to right. *)
(***************************************************************************)
RECURSIVE Replace(_, _, _)
Replace(s, old, new) ==
    IF Len(s) = 0 THEN <<>>
    ELSE IF StartsWith(s, old)
    THEN new \o Replace(SubSeq(s, Len(old) + 1, Len(s)), old, new)
    ELSE <<s[1]>> \o Replace(Tail(s), old, new)

(***************************************************************************)
(* bandit.core.blacklisting                                                *)
(***************************************************************************)
NodeTypes == {"Call", "Import", "ImportFrom"}

\* Context facade: the value of one call argument, a literal string's value,
\* an identifier's name, None for anything else.
ArgValue(a) ==
    IF a.kind = "Str" THEN Str(a.s)
    ELSE IF a.kind = "Name" THEN Str(a.id)
    ELSE None

call_function_name_qual(ctx) == ctx.node.func.qual
call_args_count(ctx) == Len(ctx.node.args)
call_args(ctx) == [i \in 1..Len(ctx.node.args) |-> ArgValue(ctx.node.args[i])]
call_keywords(ctx) ==
    [k \in DOMAIN ctx.node.keywords |-> ArgValue(ctx.node.keywords[k])]

Issue(sev, conf, cwe, text, ident, test_id) ==
    [t |-> "issue", severity |-> sev, confidence |-> conf, cwe |-> cwe,
     text |-> text, ident |-> ident, test_id |-> test_id]

report_issue_confidence_from_rule(check, name) ==
    Issue(DictGet(check, "level", "MEDIUM"),
          DictGet(check, "confidence", "HIGH"),
          DictGet(check, "cwe", "NOTSET"),
          Replace(check.message, Placeholder, name),
          name,
          DictGet(check, "id", "LEGACY"))

report_issue(check, name) ==
    Issue(DictGet(check, "level", "MEDIUM"),
          "HIGH",
          DictGet(check, "cwe", "NOTSET"),
          Replace(check.message, Placeholder, name),
          name,
          DictGet(check, "id", "LEGACY"))

\* Lines 36-55: the name a Call node is matched under, or the exception raised
\* while computing it.
CallName(ctx) ==
    LET func == ctx.node.func
        nargs == ctx.node.args
    IN  IF func.kind = "Name" /\ func.id = "__import__" THEN
            IF Len(nargs) # 0 THEN
                IF nargs[1].kind = "Str" THEN Str(nargs[1].s)
                ELSE Str(S_UNKNOWN)
            ELSE Str(S_empty)
        ELSE
            LET name == call_function_name_qual(ctx)
            IN  IF name \in {Str(S_import_module), Str(S_dunder_import)} THEN
                    IF call_args_count(ctx) > 0 THEN call_args(ctx)[1]
                    ELSE IF "name" \in DOMAIN call_keywords(ctx)
                         THEN call_keywords(ctx)["name"]
                         ELSE Raise("KeyError")
                ELSE name

\* Line 58, for one rule: some qualname globs the name.
CallRuleMatches_prefix(check, name) ==
    \E k \in 1..Len(check.qualnames) :
        name # None /\ StartsWith(name.v, check.qualnames[k])

CallRuleMatches(check, name) ==
    \E k \in 1..Len(check.qualnames) :
        name # None /\ fnmatch(name.v, check.qualnames[k])

\* Lines 56-59.
RECURSIVE CallLoop(_, _, _)
CallLoop(checks, i, name) ==
    IF i > Len(checks) THEN None
    ELSE IF CallRuleMatches(checks[i], name)
    THEN report_issue(checks[i], name.v)
    ELSE CallLoop(checks, i + 1, name)

\* Lines 62-65.
ImportPrefix(node) ==
    IF node.type = "ImportFrom" /\ node.module # None
    THEN node.module.v \o <<".">>
    ELSE <<>>

\* Line 70, for one rule and one imported name.
ImportNameMatches_glob(check, prefix, alias) ==
    \E k \in 1..Len(check.qualnames) :
        fnmatch(prefix \o alias.name, check.qualnames[k])

ImportNameMatches_alias(check, prefix, alias) ==
    \E k \in 1..Len(check.qualnames) :
        StartsWith(prefix \o (IF alias.asname # None THEN alias.asname.v
                              ELSE alias.name),
                   check.qualnames[k])

ImportNameMatches(check, prefix, alias) ==
    \E k \in 1..Len(check.qualnames) :
        StartsWith(prefix \o alias.name, check.qualnames[k])

\* Lines 68-71: the first imported name the rule matches, 0 if none.
RECURSIVE NameLoop(_, _, _, _)
NameLoop(check, names, prefix, k) ==
    IF k > Len(names) THEN 0
    ELSE IF ImportNameMatches(check, prefix, names[k]) THEN k
    ELSE NameLoop(check, names, prefix, k + 1)

\* Lines 67-71.
RECURSIVE ImportLoop_last(_, _, _)
ImportLoop_last(checks, i, node) ==
    IF i > Len(checks) THEN None
    ELSE LET later == ImportLoop_last(checks, i + 1, node)
             k == NameLoop(checks[i], node.names, ImportPrefix(node), 1)
         IN  IF later # None THEN later
             ELSE IF k # 0 THEN report_issue(checks[i], node.names[k].name)
             ELSE None

\* Lines 67-71 with the loops exchanged: names outside, rules inside.
ImportLoop_names_outer(checks, i, node) ==
    LET prefix == ImportPrefix(node)
        hit(n) == {j \in i..Len(checks) :
                      ImportNameMatches(checks[j], prefix, node.names[n])}
        hits == {n \in 1..Len(node.names) : hit(n) # {}}
    IN  IF hits = {} THEN None
        ELSE LET n == CHOOSE a \in hits : \A b \in hits : a <= b
                 j == CHOOSE a \in hit(n) : \A b \in hit(n) : a <= b
             IN  report_issue(checks[j], node.names[n].name)

RECURSIVE ImportLoop(_, _, _)
ImportLoop(checks, i, node) ==
    IF i > Len(checks) THEN None
    ELSE LET k == NameLoop(checks[i], node.names, ImportPrefix(node), 1)
         IN  IF k # 0 THEN report_issue(checks[i], node.names[k].name)
             ELSE ImportLoop(checks, i + 1, node)

blacklist(ctx, blacklists) ==
    LET node_type == ctx.node.type
    IN  IF node_type = "Call" THEN
            LET name == CallName(ctx)
            IN  IF name.t = "raise" THEN name
                ELSE CallLoop(blacklists[node_type], 1, name)
        ELSE IF node_type \in {"Import", "ImportFrom"} THEN
            ImportLoop(blacklists[node_type], 1, ctx.node)
        ELSE None

(***************************************************************************)
(* Inputs of blacklist(): nodes with the facade's answers, and rule lists. *)
(***************************************************************************)
SeqsUpTo(S, lo, hi) == UNION {[1..n -> S] : n \in lo..hi}

StrArg(s) == [kind |-> "Str", s |-> s]
NameArg(id) == [kind |-> "Name", id |-> id]
OtherArg == [kind |-> "Other"]

\* func of a Call: a Name or an Attribute, with the qualified name the facade
\* resolves it to (None when it cannot be resolved).
BuiltinImportFunc == [kind |-> "Name", id |-> "__import__", qual |-> None]
ImportlibFuncs ==
    {[kind |-> "Attribute", id |-> "", qual |-> Str(q)] :
        q \in {S_import_module, S_dunder_import}}
PlainFuncs ==
    {[kind |-> "Attribute", id |-> "", qual |-> Str(q)] : q \in {S_os, S_os_path, S_ot}}
        \cup {[kind |-> "Name", id |-> "x", qual |-> Str(S_x)],
              [kind |-> "Call", id |-> "", qual |-> None]}

ArgLists ==
    {<<>>, <<StrArg(S_os)>>, <<StrArg(S_os_path)>>, <<NameArg(S_x)>>, <<OtherArg>>}
KeywordDicts ==
    {EmptyDict, [k \in {"name"} |-> StrArg(S_os)], [k \in {"name"} |-> OtherArg]}

CallNodes ==
    {[type |-> "Call", func |-> f, args |-> a, keywords |-> k] :
        f \in {BuiltinImportFunc} \cup ImportlibFuncs, a \in ArgLists, k \in KeywordDicts}
    \cup {[type |-> "Call", func |-> f, args |-> <<>>, keywords |-> EmptyDict] :
        f \in PlainFuncs}

Aliases ==
    {[name |-> S_os_path, asname |-> Str(S_p)],
     [name |-> S_path, asname |-> None],
     [name |-> S_p, asname |-> Str(S_os)]}
ImportNodes ==
    {[type |-> "Import", names |-> n] : n \in SeqsUpTo(Aliases, 1, MaxNames)}
    \cup {[type |-> "ImportFrom", module |-> m, names |-> n] :
            m \in {None, Str(S_os)}, n \in SeqsUpTo(Aliases, 1, MaxNames)}

Nodes == CallNodes \cup ImportNodes

Msg_a_name_b == <<"a">> \o Placeholder \o <<"b">>
Msg_name_name == Placeholder \o Placeholder
Msg_plain == <<"n", "o">>

Rules ==
    {[id |-> "B1", level |-> "HIGH", cwe |-> "CWE-78", confidence |-> "LOW",
      message |-> Msg_a_name_b, qualnames |-> <<S_os>>],
     [id |-> "B2", level |-> "LOW", message |-> Msg_name_name,
      qualnames |-> <<P_os_star>>],
     [message |-> Msg_plain, qualnames |-> <<P_star>>],
     [id |-> "B4", cwe |-> "CWE-20", confidence |-> "MEDIUM",
      message |-> Msg_name_name, qualnames |-> <<P_os_pat_q>>],
     [id |-> "B5", level |-> "LOW", message |-> Msg_a_name_b,
      qualnames |-> <<P_o_class, P_open_bracket>>],
     [message |-> Msg_a_name_b, qualnames |-> <<S_p, S_os_path>>],
     [id |-> "B7", level |-> "HIGH", confidence |-> "LOW",
      message |-> Msg_plain, qualnames |-> <<P_o_negclass>>]}

RuleLists == SeqsUpTo(Rules, 0, MaxRules)

Idle ==
    /\ args = None
    /\ mgr = None
    /\ locals = None
    /\ outputs = <<>>
    /\ exit_filter = None
    /\ status = None
    /\ events = <<>>

(***************************************************************************)
(* Specification: blacklist() applied to one node under one configuration. *)
(***************************************************************************)
InitBlacklist ==
    /\ pc = "call"
    /\ \E node \in Nodes, rules \in RuleLists :
        /\ context = [node |-> node]
        /\ config = [ty \in NodeTypes |-> IF ty = node.type THEN rules ELSE <<>>]
    /\ result = Pending
    /\ Idle

Blacklist ==
    /\ pc = "call"
    /\ result' = blacklist(context, config)
    /\ pc' = "done"
    /\ UNCHANGED <<context, config, args, mgr, locals, outputs, exit_filter, status, events>>

NextBlacklist == Blacklist

SpecBlacklist == InitBlacklist /\ [][NextBlacklist]_vars

(***************************************************************************)
(* Properties of blacklist().                                              *)
(***************************************************************************)
node == context.node
IsImportNode == node.type \in {"Import", "ImportFrom"}
rules == config[node.type]
Done == pc = "done"

\* The name an import statement writes for one imported name.
WrittenName(alias) ==
    IF node.type = "ImportFrom" /\ node.module # None
    THEN node.module.v \o <<".">> \o alias.name
    ELSE alias.name

\* q is, character by character, the beginning of s.
LiteralPrefix(q, s) ==
    /\ Len(q) <= Len(s)
    /\ \A k \in 1..Len(q) : s[k] = q[k]

HasNo(q, chars) == \A k \in 1..Len(q) : q[k] \notin chars

\* Glob matching stated without the matching algorithm, for the patterns
\* made of literal characters and '?', optionally ended by one '*'.
PlainGlob(q) ==
    /\ HasNo(q, {"["})
    /\ \A k \in 1..Len(q) : q[k] = "*" => k = Len(q)
GlobMeaning(s, q) ==
    LET fixed == IF Len(q) > 0 /\ q[Len(q)] = "*" THEN Len(q) - 1 ELSE Len(q)
    IN  /\ IF fixed = Len(q) THEN Len(s) = fixed ELSE Len(s) >= fixed
        /\ \A k \in 1..fixed : q[k] = "?" \/ q[k] = s[k]
ExpectedGlob(s, q) == IF PlainGlob(q) THEN GlobMeaning(s, q) ELSE fnmatch(s, q)

\* The rules of the list that match the node, by position.
MatchingRules ==
    {i \in 1..Len(rules) :
        IF node.type = "Call"
        THEN /\ CallName(context).t = "str"
             /\ \E k \in 1..Len(rules[i].qualnames) :
                    ExpectedGlob(CallName(context).v, rules[i].qualnames[k])
        ELSE \E n \in 1..Len(node.names), k \in 1..Len(rules[i].qualnames) :
                    LiteralPrefix(rules[i].qualnames[k], WrittenName(node.names[n]))}

First(S) == CHOOSE i \in S : \A j \in S : i <= j

BuiltFrom(issue, check) ==
    /\ issue.test_id = DictGet(check, "id", "LEGACY")
    /\ issue.severity = DictGet(check, "level", "MEDIUM")
    /\ issue.cwe = DictGet(check, "cwe", "NOTSET")
    /\ issue.text = Replace(check.message, Placeholder, issue.ident)

\* C1: blacklist() returns at most one Issue, and when several rules of the
\* list match the node the Issue is built from the earliest of them.
Thm_C1_FirstMatchWins ==
    Done =>
        /\ result.t \in {"none", "issue", "raise"}
        /\ result.t = "issue" =>
              LET matching == MatchingRules
                  first == First(matching)
              IN  /\ matching # {}
                  /\ BuiltFrom(result, rules[first])
                  /\ \A j \in matching :
                        (j # first /\ DictGet(rules[j], "id", "LEGACY")
                                        # DictGet(rules[first], "id", "LEGACY"))
                        => ~BuiltFrom(result, rules[j])

Wit_C1_TwoRulesMatch ==
    /\ Done
    /\ result.t = "issue"
    /\ Cardinality(MatchingRules) >= 2
    /\ \E j \in MatchingRules : ~BuiltFrom(result, rules[j])
    /\ BuiltFrom(result, rules[First(MatchingRules)])

\* C2: a Call matches a rule iff its whole name matches a qualname as a glob
\* (a wildcard-free pattern matches only the equal name, never a longer one);
\* an import matches iff a written name begins with a qualname taken literally.
Thm_C2_MatchPolicy ==
    (Done /\ result.t # "raise") =>
        /\ (result.t = "issue") <=> (MatchingRules # {})
        /\ node.type = "Call" =>
              \A i \in 1..Len(rules) : \A k \in 1..Len(rules[i].qualnames) :
                  LET q == rules[i].qualnames[k]
                  IN  (HasNo(q, {"*", "?", "["}) /\ result.t = "issue"
                            /\ First(MatchingRules) = i /\ Len(rules[i].qualnames) = 1)
                        => result.ident = q
        /\ IsImportNode =>
              (result.t = "issue" =>
                  \E i \in 1..Len(rules) : \E k \in 1..Len(rules[i].qualnames) :
                      \E n \in 1..Len(node.names) :
                          /\ LiteralPrefix(rules[i].qualnames[k],
                                           WrittenName(node.names[n]))
                          /\ result.ident = node.names[n].name)

Wit_C2_ProperPrefixNoCallMatch ==
    /\ Done
    /\ node.type = "Call"
    /\ CallName(context) = Str(S_os_path)
    /\ Len(rules) = 1 /\ rules[1].qualnames = <<S_os>>
    /\ result = None

\* C3: for every Call node blacklist() completes without raising; a call of
\* __import__ takes its name from a literal string target and resolves to an
\* unknown marker otherwise.
Cex_C3_NeverRaises ==
    (Done /\ node.type = "Call") =>
        /\ result.t # "raise"
        /\ (node.func.kind = "Name" /\ node.func.id = "__import__") =>
              IF Len(node.args) > 0 /\ node.args[1].kind = "Str"
              THEN CallName(context) = Str(node.args[1].s)
              ELSE CallName(context) \in {Str(S_UNKNOWN), Str(S_empty)}

\* C4: a Call whose name cannot be determined statically (None, 'UNKNOWN'
\* for a non-literal __import__ target, '' for __import__()) yields no Issue,
\* whatever the rules.
NameUndetermined ==
    /\ node.type = "Call"
    /\ \/ CallName(context) = None
       \/ /\ node.func.kind = "Name" /\ node.func.id = "__import__"
          /\ CallName(context) \in {Str(S_UNKNOWN), Str(S_empty)}
          /\ ~(Len(node.args) > 0 /\ node.args[1].kind = "Str")
Cex_C4_MissIsNoMatch ==
    (Done /\ NameUndetermined) => result = None

\* Message templates as literal parts joined by the placeholder.
RECURSIVE Join(_, _)
Join(parts, sep) ==
    IF Len(parts) = 1 THEN parts[1]
    ELSE parts[1] \o sep \o Join(Tail(parts), sep)
MessageParts ==
    {<<Msg_plain>>, <<<<"a">>, <<"b">>>>, <<<<"b">>, <<"a">>>>, <<<<>>, <<>>>>,
     <<<<>>, <<>>, <<>>>>, <<<<"a">>, <<>>, <<"b">>>>}

MatchedRule == rules[First(MatchingRules)]

\* C5 as claimed: severity, confidence and weakness id of the Issue are the
\* rule's, and the message is the rule's template with {name} replaced.
Cex_C5_IssueFromRule ==
    (Done /\ result.t = "issue") =>
        /\ "level" \in DOMAIN MatchedRule => result.severity = MatchedRule.level
        /\ "confidence" \in DOMAIN MatchedRule
              => result.confidence = MatchedRule.confidence
        /\ "cwe" \in DOMAIN MatchedRule => result.cwe = MatchedRule.cwe
        /\ \A parts \in MessageParts :
              Join(parts, Placeholder) = MatchedRule.message
                  => result.text = Join(parts, result.ident)

\* C5 amended: severity is the rule's level (MEDIUM when the rule gives none),
\* the weakness id is the rule's cwe (NOTSET when it gives none), the test id
\* is the rule's id (LEGACY when it gives none), the confidence is HIGH
\* whatever the rule says, and the message is the rule's template with every
\* {name} replaced by the matched name.
Thm_C5_IssueFromRule ==
    (Done /\ result.t = "issue") =>
        LET rule == MatchedRule
        IN  /\ result.severity =
                  (IF "level" \in DOMAIN rule THEN rule.level ELSE "MEDIUM")
            /\ result.confidence = "HIGH"
            /\ result.cwe = (IF "cwe" \in DOMAIN rule THEN rule.cwe ELSE "NOTSET")
            /\ result.test_id = (IF "id" \in DOMAIN rule THEN rule.id ELSE "LEGACY")
            /\ \E parts \in MessageParts :
                  /\ Join(parts, Placeholder) = rule.message
                  /\ result.text = Join(parts, result.ident)

Wit_C5_RuleWithConfidence ==
    /\ Done
    /\ result.t = "issue"
    /\ "confidence" \in DOMAIN MatchedRule
    /\ MatchedRule.confidence = "LOW"
    /\ result.confidence = "HIGH"
    /\ result.severity = MatchedRule.level
    /\ MatchedRule.message = Msg_a_name_b
    /\ result.text = <<"a">> \o result.ident \o <<"b">>

\* C14: for an Import or ImportFrom of several names the rules are the outer
\* loop and the imported names the inner one. The Issue is for the earliest
\* rule that matches any imported name and, within that rule, for the first
\* name it matches in source order, even when a later rule matches a name
\* written earlier; ident and the text put in place of {name} are the bare
\* imported name, without the module prefix of ImportFrom.
RuleMatchesName(i, n) ==
    \E k \in 1..Len(rules[i].qualnames) :
        LiteralPrefix(rules[i].qualnames[k], WrittenName(node.names[n]))
NamesMatchedBy(i) == {n \in 1..Len(node.names) : RuleMatchesName(i, n)}
RulesMatchingSomeName == {i \in 1..Len(rules) : NamesMatchedBy(i) # {}}
Thm_C14_RulesOuterNamesInner ==
    (Done /\ IsImportNode /\ result.t = "issue") =>
        /\ RulesMatchingSomeName # {}
        /\ LET rule == rules[First(RulesMatchingSomeName)]
               bare == node.names[First(NamesMatchedBy(First(RulesMatchingSomeName)))].name
           IN  /\ result.ident = bare
               /\ result.test_id = DictGet(rule, "id", "LEGACY")
               /\ result.severity = DictGet(rule, "level", "MEDIUM")
               /\ result.cwe = DictGet(rule, "cwe", "NOTSET")
               /\ \E parts \in MessageParts :
                     /\ Join(parts, Placeholder) = rule.message
                     /\ result.text = Join(parts, bare)

\* from os import p, path: the first rule matches only the second name, the
\* second rule matches the first name, and the Issue names the bare 'path'.
Wit_C14_LaterRuleEarlierName ==
    /\ Done
    /\ node.type = "ImportFrom" /\ node.module # None
    /\ Len(node.names) = 2 /\ Len(rules) = 2
    /\ NamesMatchedBy(1) = {2}
    /\ 1 \in NamesMatchedBy(2)
    /\ result.t = "issue"
    /\ result.ident = node.names[2].name
    /\ result.ident # WrittenName(node.names[2])
    /\ result.test_id = DictGet(rules[1], "id", "LEGACY")
    /\ result.test_id # DictGet(rules[2], "id", "LEGACY")
    /\ \E k \in 1..Len(rules[1].message) : rules[1].message[k] = "{"

\* C6: an import is matched under the names as written (module + '.' + name
\* for ImportFrom with a module, the name itself otherwise), never under a
\* local alias.
Thm_C6_WrittenNames ==
    (Done /\ IsImportNode) =>
        /\ (result.t = "issue") <=>
              \E i \in 1..Len(rules) : \E k \in 1..Len(rules[i].qualnames) :
                  \E n \in 1..Len(node.names) :
                      LiteralPrefix(rules[i].qualnames[k],
                                    IF node.type = "ImportFrom" /\ node.module # None
                                    THEN node.module.v \o <<".">> \o node.names[n].name
                                    ELSE node.names[n].name)
        /\ result.t = "issue" => \E n \in 1..Len(node.names) :
                                      result.ident = node.names[n].name
        /\ result.t \in {"issue", "none"}

Wit_C6_AliasedImport ==
    /\ Done
    /\ node = [type |-> "Import",
               names |-> <<[name |-> S_os_path, asname |-> Str(S_p)]>>]
    /\ Len(rules) = 1 /\ rules[1].qualnames = <<S_os>>
    /\ result.t = "issue"
    /\ result.ident = S_os_path

(***************************************************************************)
(* The plugins B113 (request_without_timeout) and B507                     *)
(* (ssh_no_host_key_verification), and the context facade they query.      *)
(***************************************************************************)
S_requests == <<"r", "e", "q", "u", "e", "s", "t", "s">>
S_requests_get == <<"r", "e", "q", "u", "e", "s", "t", "s", ".", "g", "e", "t">>
S_requests_delete ==
    <<"r", "e", "q", "u", "e", "s", "t", "s", ".", "d", "e", "l", "e", "t",
      "e">>
S_requests_Session ==
    <<"r", "e", "q", "u", "e", "s", "t", "s", ".", "S", "e", "s", "s", "i",
      "o", "n">>
S_myrequests_options ==
    <<"m", "y", "r", "e", "q", "u", "e", "s", "t", "s", ".", "o", "p", "t",
      "i", "o", "n", "s">>
S_httpx_get == <<"h", "t", "t", "p", "x", ".", "g", "e", "t">>
S_get == <<"g", "e", "t">>
S_client_set_policy ==
    <<"c", "l", "i", "e", "n", "t", ".", "s", "e", "t", "_", "m", "i", "s",
      "s", "i", "n", "g", "_", "h", "o", "s", "t", "_", "k", "e", "y", "_",
      "p", "o", "l", "i", "c", "y">>
S_set_missing_host_key_policy ==
    <<"s", "e", "t", "_", "m", "i", "s", "s", "i", "n", "g", "_", "h", "o",
      "s", "t", "_", "k", "e", "y", "_", "p", "o", "l", "i", "c", "y">>
S_options == <<"o", "p", "t", "i", "o", "n", "s">>
S_head == <<"h", "e", "a", "d">>
S_post == <<"p", "o", "s", "t">>
S_put == <<"p", "u", "t">>
S_patch == <<"p", "a", "t", "c", "h">>
S_delete == <<"d", "e", "l", "e", "t", "e">>

Literal(v) == [t |-> "lit", v |-> v]
Bool(b) == [t |-> "bool", v |-> b]

\* Python's "sub in s" for strings.
Contains(s, sub) ==
    \E i \in 0..(Len(s) - Len(sub)) : SubSeq(s, i + 1, i + Len(sub)) = sub

\* Facade: the final component of the qualified call name.
RECURSIVE LastComponent(_)
LastComponent(q) ==
    IF \A k \in 1..Len(q) : q[k] # "." THEN q
    ELSE LastComponent(Tail(q))

call_function_name(ctx) == LastComponent(ctx.qual)

\* Facade: the literal value bound to a keyword argument, None when the call
\* has no such keyword; with an expected value, whether the two are equal.
check_call_arg_value(ctx, argument_name, expected) ==
    IF argument_name \notin DOMAIN ctx.keywords THEN None
    ELSE IF expected = None THEN ctx.keywords[argument_name]
    ELSE Bool(ctx.keywords[argument_name] = expected)

\* Facade: some import of the file is the module or lies under it.
is_module_imported_like(ctx, module) ==
    \E imp \in ctx.imports :
        /\ Len(module) <= Len(imp)
        /\ SubSeq(imp, 1, Len(module)) = module

get_lineno_for_call_arg(ctx, argument_name) == ctx.lineno

PluginIssue(sev, conf, text) ==
    [t |-> "issue", severity |-> sev, confidence |-> conf, text |-> text]

http_verbs == {S_get, S_options, S_head, S_post, S_put, S_patch, S_delete}

request_without_timeout_any_function(ctx) ==
    IF Contains(ctx.qual, S_requests) THEN
        IF check_call_arg_value(ctx, "timeout", None) = None THEN
            PluginIssue("MEDIUM", "LOW", "Requests call without timeout")
        ELSE IF check_call_arg_value(ctx, "timeout", Literal("None")) = Bool(TRUE) THEN
            PluginIssue("MEDIUM", "LOW", "Requests call with timeout set to None")
        ELSE None
    ELSE None

request_without_timeout_one_message(ctx) ==
    IF Contains(ctx.qual, S_requests) /\ call_function_name(ctx) \in http_verbs THEN
        IF check_call_arg_value(ctx, "timeout", None) = None
            \/ check_call_arg_value(ctx, "timeout", Literal("None")) = Bool(TRUE)
        THEN PluginIssue("MEDIUM", "LOW", "Requests call without timeout")
        ELSE None
    ELSE None

request_without_timeout(ctx) ==
    IF Contains(ctx.qual, S_requests) /\ call_function_name(ctx) \in http_verbs THEN
        IF check_call_arg_value(ctx, "timeout", None) = None THEN
            PluginIssue("MEDIUM", "LOW", "Requests call without timeout")
        ELSE IF check_call_arg_value(ctx, "timeout", Literal("None")) = Bool(TRUE) THEN
            PluginIssue("MEDIUM", "LOW", "Requests call with timeout set to None")
        ELSE None
    ELSE None

SshIssue(ctx) ==
    [t |-> "issue", severity |-> "HIGH", confidence |-> "MEDIUM",
     cwe |-> "CWEMAP[B507]",
     text |-> "Paramiko call with policy set to automatically trust the unknown host key.",
     lineno |-> get_lineno_for_call_arg(ctx, "set_missing_host_key_policy")]

ssh_no_host_key_verification_no_import_check(ctx) ==
    IF call_function_name(ctx) = S_set_missing_host_key_policy THEN
        IF Len(ctx.call_args) # 0
            /\ ctx.call_args[1] \in {Literal("AutoAddPolicy"), Literal("WarningPolicy")}
        THEN SshIssue(ctx)
        ELSE None
    ELSE None

ssh_no_host_key_verification(ctx) ==
    IF is_module_imported_like(ctx, <<"paramiko">>)
        /\ call_function_name(ctx) = S_set_missing_host_key_policy THEN
        IF Len(ctx.call_args) # 0
            /\ ctx.call_args[1] \in {Literal("AutoAddPolicy"), Literal("WarningPolicy")}
        THEN SshIssue(ctx)
        ELSE None
    ELSE None

(***************************************************************************)
(* Specification: one of the two plugins applied to one Call context.      *)
(***************************************************************************)
PluginQuals ==
    {S_requests_get, S_requests_delete, S_requests_Session, S_myrequests_options,
     S_httpx_get, S_get, S_client_set_policy, S_set_missing_host_key_policy}
PluginKeywords ==
    {EmptyDict, [k \in {"timeout"} |-> Literal("None")],
     [k \in {"timeout"} |-> Literal("5")],
     [k \in {"verify"} |-> Literal("False")]}
PluginArgs ==
    {<<>>, <<Literal("AutoAddPolicy")>>, <<Literal("WarningPolicy")>>,
     <<Literal("RejectPolicy")>>, <<None>>,
     <<Literal("url"), Literal("AutoAddPolicy")>>}
PluginImports ==
    SUBSET {<<"paramiko">>, <<"paramiko", "client">>, <<"os">>, <<"requests">>}

PluginContexts ==
    {[qual |-> q, keywords |-> k, call_args |-> a, imports |-> i, lineno |-> 4] :
        q \in PluginQuals, k \in PluginKeywords, a \in PluginArgs, i \in PluginImports}

InitPlugins ==
    /\ pc = "call"
    /\ context \in PluginContexts
    /\ config = None
    /\ result = Pending
    /\ Idle

RequestWithoutTimeout ==
    /\ pc = "call"
    /\ result' = request_without_timeout(context)
    /\ pc' = "done_B113"
    /\ UNCHANGED <<context, config, args, mgr, locals, outputs, exit_filter, status, events>>

SshNoHostKeyVerification ==
    /\ pc = "call"
    /\ result' = ssh_no_host_key_verification(context)
    /\ pc' = "done_B507"
    /\ UNCHANGED <<context, config, args, mgr, locals, outputs, exit_filter, status, events>>

NextPlugins == RequestWithoutTimeout \/ SshNoHostKeyVerification

SpecPlugins == InitPlugins /\ [][NextPlugins]_vars

\* The call is a requests HTTP-verb call: its qualified name holds
\* 'requests' and its function name is one of the seven verbs.
IsRequestsVerbCall ==
    /\ \E i \in 1..Len(context.qual) :
          /\ i + 7 <= Len(context.qual)
          /\ \A k \in 1..8 : context.qual[i + k - 1] = S_requests[k]
    /\ \E verb \in {S_get, S_options, S_head, S_post, S_put, S_patch, S_delete} :
          \/ context.qual = verb
          \/ /\ Len(context.qual) > Len(verb)
             /\ context.qual[Len(context.qual) - Len(verb)] = "."
             /\ \A k \in 1..Len(verb) :
                    context.qual[Len(context.qual) - Len(verb) + k] = verb[k]
HasTimeout == "timeout" \in DOMAIN context.keywords

ParamikoImported ==
    \E imp \in context.imports : imp[1] = "paramiko"
CallsSetPolicy ==
    context.qual \in {S_client_set_policy, S_set_missing_host_key_policy}
TrustingPolicy ==
    /\ context.call_args # <<>>
    /\ Head(context.call_args) \in {Literal("AutoAddPolicy"), Literal("WarningPolicy")}
Thm_C9_NoHostKeyVerification ==
    pc = "done_B507" =>
        IF ParamikoImported /\ CallsSetPolicy /\ TrustingPolicy
        THEN /\ result.t = "issue"
             /\ result.severity = "HIGH"
             /\ result.confidence = "MEDIUM"
        ELSE result = None

Wit_C9_AutoAddPolicy ==
    /\ pc = "done_B507"
    /\ context.imports = {<<"paramiko">>}
    /\ context.qual = S_client_set_policy
    /\ context.call_args = <<Literal("AutoAddPolicy")>>
    /\ result.t = "issue"
    /\ result.severity = "HIGH"
    /\ result.confidence = "MEDIUM"

(***************************************************************************)
(* bandit.cli.main                                                         *)
(***************************************************************************)
List(l) == [t |-> "list", v |-> l]
IntVal(n) == [t |-> "int", v |-> n]

\* Python truth value of an option value.
Truthy(x) ==
    CASE x.t = "none" -> FALSE
      [] x.t = "list" -> Len(x.v) > 0
      [] x.t = "int" -> x.v # 0
      [] x.t = "bool" -> x.v
      [] x.t = "str" -> x.v # ""
      [] OTHER -> TRUE

_log_option_source(arg_val, ini_val, option_name) ==
    IF Truthy(arg_val) THEN arg_val
    ELSE IF Truthy(ini_val) THEN ini_val
    ELSE None

\* constants.RANKING, lowest first: no -l flag selects everything, -l LOW,
\* -ll MEDIUM, -lll HIGH (the count starts at 1).
RANKING == <<"UNDEFINED", "LOW", "MEDIUM", "HIGH">>
Rank(level) == CHOOSE k \in 1..Len(RANKING) : RANKING[k] = level

\* The default output format chosen at start-up (line 189), and sys.stdout.
DefaultFormats == {"screen", "txt"}
Stdout == "<stdout>"

\* Formatters that declare _accepts_baseline.
baseline_formatters == {"json"}

\* BanditManager.results_count: the results at or above both levels.
results_count(manager, sev_filter, conf_filter) ==
    Cardinality({k \in 1..Len(manager.results) :
        /\ Rank(manager.results[k].severity) >= Rank(sev_filter)
        /\ Rank(manager.results[k].confidence) >= Rank(conf_filter)})

\* Lines 530-534.
ExitStatus_ignores_exit_zero(count, exit_zero) ==
    IF count > 0 THEN 1 ELSE 0

ExitStatus(count, exit_zero) ==
    IF count > 0 /\ ~exit_zero THEN 1 ELSE 0

\* The command lines of the model: what parse_args returns.
FormatNames == {"screen", "json"}
FileNames == {Stdout, "out.json"}
FlagCounts == 1..(Len(RANKING) + 1)
ParsedArgs ==
    {[output_format |-> f, output_file |-> o, severity |-> IntVal(s),
      confidence |-> IntVal(c), exit_zero |-> z, targets |-> List(t),
      profile |-> None, baseline |-> b] :
        f \in {None} \cup {List(l) : l \in SeqsUpTo(FormatNames, 1, MaxOutputs)},
        o \in {None} \cup {List(l) : l \in SeqsUpTo(FileNames, 1, MaxOutputs)},
        s \in FlagCounts, c \in FlagCounts, z \in BOOLEAN,
        t \in {<<>>, <<"src">>}, b \in {None}}

\* What a .bandit file may supply (None: there is no such file).
IniFiles ==
    {None,
     [targets |-> List(<<"lib">>), format |-> [t |-> "str", v |-> "json"],
      level |-> [t |-> "str", v |-> "3"], baseline |-> [t |-> "str", v |-> "base.json"]],
     [profile |-> [t |-> "str", v |-> "prof"], output |-> [t |-> "str", v |-> "out.txt"],
      confidence |-> [t |-> "str", v |-> "2"]]}

IssueKinds ==
    {[severity |-> "HIGH", confidence |-> "LOW"],
     [severity |-> "LOW", confidence |-> "HIGH"]}
ResultLists == SeqsUpTo(IssueKinds, 0, MaxResults)

NewManager ==
    [baseline |-> None, discovered |-> FALSE, scanned |-> FALSE, results |-> <<>>]

InitMain ==
    /\ pc = "output_args"
    /\ args \in ParsedArgs
    /\ mgr = None
    /\ \E d \in DefaultFormats :
          locals = [output_format |-> d, argv |-> args, ini_options |-> None]
    /\ outputs = <<>>
    /\ exit_filter = None
    /\ status = None
    /\ events = <<>>
    /\ context = None
    /\ config = None
    /\ result = None

Exit(code) ==
    /\ pc' = "exited"
    /\ status' = code

\* Lines 309-330 without the length test of lines 334-338.
MainOutputArgs_no_length_check ==
    /\ pc = "output_args"
    /\ LET fmt1 == IF args.output_format = None \/ Len(args.output_format.v) = 0
                   THEN <<locals.output_format>> ELSE args.output_format.v
           out1 == IF args.output_file = None \/ Len(args.output_file.v) = 0
                   THEN <<Stdout>> ELSE args.output_file.v
           add == /\ \E k \in 1..Len(fmt1) : fmt1[k] = "screen"
                  /\ \A k \in 1..Len(out1) : out1[k] # Stdout
           fmt2 == IF add
                   THEN SelectSeq(fmt1, LAMBDA f : f # "screen") \o <<"screen">>
                   ELSE fmt1
           out2 == IF add THEN Append(out1, Stdout) ELSE out1
       IN  /\ args' = [args EXCEPT !.output_format = List(fmt2),
                                   !.output_file = List(out2)]
           /\ pc' = "load_config"
    /\ UNCHANGED <<context, config, result, mgr, locals, outputs, exit_filter,
                   status, events>>

\* Lines 309-338: defaults, the screen format, one output per format.
MainOutputArgs ==
    /\ pc = "output_args"
    /\ LET fmt1 == IF args.output_format = None \/ Len(args.output_format.v) = 0
                   THEN <<locals.output_format>> ELSE args.output_format.v
           out1 == IF args.output_file = None \/ Len(args.output_file.v) = 0
                   THEN <<Stdout>> ELSE args.output_file.v
           add == /\ \E k \in 1..Len(fmt1) : fmt1[k] = "screen"
                  /\ \A k \in 1..Len(out1) : out1[k] # Stdout
           fmt2 == IF add
                   THEN SelectSeq(fmt1, LAMBDA f : f # "screen") \o <<"screen">>
                   ELSE fmt1
           out2 == IF add THEN Append(out1, Stdout) ELSE out1
       IN  /\ args' = [args EXCEPT !.output_format = List(fmt2),
                                   !.output_file = List(out2)]
           /\ IF Len(fmt2) # Len(out2)
              THEN Exit(2)
              ELSE pc' = "load_config" /\ UNCHANGED status
    /\ UNCHANGED <<context, config, result, mgr, locals, outputs, exit_filter, events>>

\* Lines 344-348: BanditConfig may raise ConfigError.
MainLoadConfig ==
    /\ pc = "load_config"
    /\ \E config_error \in BOOLEAN :
          IF config_error
          THEN Exit(2) /\ events' = events \o <<"BanditConfig", "ConfigError">>
          ELSE /\ pc' = "ini_options"
               /\ events' = Append(events, "BanditConfig")
               /\ UNCHANGED status
    /\ UNCHANGED <<context, config, result, args, mgr, locals, outputs, exit_filter>>

\* Lines 350-448, for the options the model keeps.
MainIniOptions ==
    /\ pc = "ini_options"
    /\ \E ini_options \in IniFiles :
       /\ IF ini_options # None THEN
              args' = [args EXCEPT
                  !.targets = _log_option_source(
                      args.targets, DictGet(ini_options, "targets", None),
                      "selected targets"),
                  !.profile = _log_option_source(
                      args.profile, DictGet(ini_options, "profile", None), "profile"),
                  !.severity = _log_option_source(
                      args.severity, DictGet(ini_options, "level", None),
                      "severity level"),
                  !.confidence = _log_option_source(
                      args.confidence, DictGet(ini_options, "confidence", None),
                      "confidence level"),
                  !.output_format = _log_option_source(
                      args.output_format, DictGet(ini_options, "format", None),
                      "output format"),
                  !.output_file = _log_option_source(
                      args.output_file, DictGet(ini_options, "output", None),
                      "output file"),
                  !.baseline = _log_option_source(
                      args.baseline, DictGet(ini_options, "baseline", None),
                      "path of a baseline report")]
          ELSE UNCHANGED args
       /\ locals' = [locals EXCEPT !.ini_options = ini_options]
    /\ pc' = "targets"
    /\ UNCHANGED <<context, config, result, mgr, outputs, exit_filter, status, events>>

\* Lines 450-452.
MainTargets ==
    /\ pc = "targets"
    /\ IF ~Truthy(args.targets) THEN Exit(2)
       ELSE pc' = "profile" /\ UNCHANGED status
    /\ UNCHANGED <<context, config, result, args, mgr, locals, outputs, exit_filter, events>>

\* Lines 461-476: the profile is read and validated, then the manager is made.
MainProfile ==
    /\ pc = "profile"
    /\ \E outcome \in {"valid", "ProfileNotFound", "ValueError"} :
          /\ outcome = "ProfileNotFound" => Truthy(args.profile)
          /\ IF outcome = "valid"
             THEN /\ mgr' = NewManager
                  /\ events' = Append(events, "validate_profile")
                  /\ pc' = "baseline"
                  /\ UNCHANGED status
             ELSE /\ Exit(2)
                  /\ events' = Append(events, outcome)
                  /\ UNCHANGED mgr
    /\ UNCHANGED <<context, config, result, args, locals, outputs, exit_filter>>

\* Lines 478-490 with the IOError handler falling through instead of exiting.
MainBaseline_ignores_io_error ==
    /\ pc = "baseline"
    /\ IF args.baseline # None THEN
          \E io_error \in BOOLEAN :
              /\ IF io_error
                 THEN events' = Append(events, "IOError") /\ UNCHANGED mgr
                 ELSE /\ mgr' = [mgr EXCEPT !.baseline = args.baseline]
                      /\ events' = Append(events, "populate_baseline")
              /\ IF \E k \in 1..Len(args.output_format.v) :
                       args.output_format.v[k] \notin baseline_formatters
                 THEN Exit(2)
                 ELSE pc' = "discover" /\ UNCHANGED status
       ELSE pc' = "discover" /\ UNCHANGED <<mgr, status, events>>
    /\ UNCHANGED <<context, config, result, args, locals, outputs, exit_filter>>

\* Lines 478-490.
MainBaseline ==
    /\ pc = "baseline"
    /\ IF args.baseline # None THEN
          \E io_error \in BOOLEAN :
              IF io_error
              THEN /\ Exit(2)
                   /\ events' = Append(events, "IOError")
                   /\ UNCHANGED mgr
              ELSE /\ mgr' = [mgr EXCEPT !.baseline = args.baseline]
                   /\ events' = Append(events, "populate_baseline")
                   /\ IF \E k \in 1..Len(args.output_format.v) :
                            args.output_format.v[k] \notin baseline_formatters
                      THEN Exit(2)
                      ELSE pc' = "discover" /\ UNCHANGED status
       ELSE pc' = "discover" /\ UNCHANGED <<mgr, status, events>>
    /\ UNCHANGED <<context, config, result, args, locals, outputs, exit_filter>>

\* Lines 499-504.
MainDiscover ==
    /\ pc = "discover"
    /\ mgr' = [mgr EXCEPT !.discovered = TRUE]
    /\ events' = Append(events, "discover_files")
    /\ \E tests_loaded \in BOOLEAN :
          IF ~tests_loaded THEN Exit(2)
          ELSE pc' = "run_tests" /\ UNCHANGED status
    /\ UNCHANGED <<context, config, result, args, locals, outputs, exit_filter>>

\* Line 507.
MainRunTests ==
    /\ pc = "run_tests"
    /\ \E found \in ResultLists :
          mgr' = [mgr EXCEPT !.scanned = TRUE, !.results = found]
    /\ events' = Append(events, "run_tests")
    /\ pc' = "levels"
    /\ UNCHANGED <<context, config, result, args, locals, outputs, exit_filter, status>>

\* Lines 512-513.
MainLevels ==
    /\ pc = "levels"
    /\ IF args.severity.v - 1 \in 0..(Len(RANKING) - 1)
            /\ args.confidence.v - 1 \in 0..(Len(RANKING) - 1)
       THEN /\ locals' = [output_format |-> locals.output_format,
                          argv |-> locals.argv,
                          ini_options |-> locals.ini_options,
                          sev_level |-> RANKING[args.severity.v],
                          conf_level |-> RANKING[args.confidence.v]]
            /\ pc' = "output"
       ELSE /\ pc' = "IndexError"
            /\ UNCHANGED locals
    /\ UNCHANGED <<context, config, result, args, mgr, outputs, exit_filter, status, events>>

\* Lines 518-528, one iteration.
MainOutput ==
    /\ pc = "output"
    /\ Len(outputs) < Len(args.output_format.v)
    /\ LET i == Len(outputs) + 1
       IN  IF i > Len(args.output_file.v)
           THEN pc' = "IndexError" /\ UNCHANGED outputs
           ELSE /\ outputs' = Append(outputs,
                        [sev_level |-> locals.sev_level,
                         conf_level |-> locals.conf_level,
                         out_file |-> args.output_file.v[i],
                         out_format |-> args.output_format.v[i]])
                /\ pc' = "output"
    /\ UNCHANGED <<context, config, result, args, mgr, locals, exit_filter, status, events>>

\* Lines 530-534.
MainExit ==
    /\ pc = "output"
    /\ Len(outputs) = Len(args.output_format.v)
    /\ exit_filter' = [sev_filter |-> locals.sev_level,
                       conf_filter |-> locals.conf_level]
    /\ Exit(ExitStatus(results_count(mgr, locals.sev_level, locals.conf_level),
                       args.exit_zero))
    /\ UNCHANGED <<context, config, result, args, mgr, locals, outputs, events>>

NextMain ==
    \/ MainOutputArgs
    \/ MainLoadConfig
    \/ MainIniOptions
    \/ MainTargets
    \/ MainProfile
    \/ MainBaseline
    \/ MainDiscover
    \/ MainRunTests
    \/ MainLevels
    \/ MainOutput
    \/ MainExit

SpecMain == InitMain /\ [][NextMain]_vars

\* C10: once the scan is complete and every output is written, the exit
\* status is 1 iff some result is at or above the selected minimum severity
\* and minimum confidence and --exit-zero is not set, and 0 otherwise; every
\* output_results call got the filter the exit decision uses.
ScanAndOutputsDone ==
    /\ pc = "exited"
    /\ mgr # None
    /\ mgr.scanned
    /\ Len(outputs) = Len(args.output_format.v)
SelectedResults ==
    {k \in 1..Len(mgr.results) :
        /\ \E a \in 1..Len(RANKING), b \in 1..Len(RANKING) :
              /\ RANKING[a] = mgr.results[k].severity
              /\ b = args.severity.v
              /\ a >= b
        /\ \E a \in 1..Len(RANKING), b \in 1..Len(RANKING) :
              /\ RANKING[a] = mgr.results[k].confidence
              /\ b = args.confidence.v
              /\ a >= b}
Thm_C10_ExitStatus ==
    ScanAndOutputsDone =>
        /\ status = (IF SelectedResults # {} /\ ~args.exit_zero THEN 1 ELSE 0)
        /\ \A k \in 1..Len(outputs) :
              /\ outputs[k].sev_level = exit_filter.sev_filter
              /\ outputs[k].conf_level = exit_filter.conf_filter
        /\ exit_filter.sev_filter = RANKING[args.severity.v]
        /\ exit_filter.conf_filter = RANKING[args.confidence.v]

Wit_C10_ExitZeroOverride ==
    /\ ScanAndOutputsDone
    /\ SelectedResults # {}
    /\ args.exit_zero
    /\ status = 0
    /\ Len(outputs) = 2

\* C11: configuration errors are fail-fast. discover_files and run_tests are
\* called only after validate_profile has succeeded and, when a baseline path
\* is given, after the baseline was read and handed to populate_baseline; once
\* the profile is not found or names an unknown test (ValueError), or the
\* baseline cannot be opened (IOError), the process has exited with status 2
\* and nothing was discovered or scanned.
Called(e) == \E i \in 1..Len(events) : events[i] = e
Precedes(a, b) ==
    \A i \in 1..Len(events) :
        events[i] = b => \E j \in 1..(i - 1) : events[j] = a
ConfigurationErrors == {"ProfileNotFound", "ValueError", "IOError"}
Thm_C11_FailFast ==
    /\ Precedes("validate_profile", "discover_files")
    /\ Precedes("validate_profile", "run_tests")
    /\ args.baseline # None =>
          /\ Precedes("populate_baseline", "discover_files")
          /\ Precedes("populate_baseline", "run_tests")
          /\ Called("discover_files") => mgr.baseline = args.baseline
    /\ mgr # None /\ (mgr.discovered \/ mgr.scanned) => Called("discover_files")
    /\ (\E e \in ConfigurationErrors : Called(e)) =>
          /\ pc = "exited"
          /\ status = 2
          /\ ~Called("discover_files")
          /\ ~Called("run_tests")
          /\ mgr # None => ~mgr.discovered /\ ~mgr.scanned

Wit_C11_BaselineUnreadable ==
    /\ pc = "exited"
    /\ status = 2
    /\ Len(events) > 0
    /\ events[Len(events)] = "IOError"
    /\ Called("validate_profile")
    /\ ~mgr.discovered

\* C12: whenever main() is in the output loop, args.output_format and
\* args.output_file have the same length, whatever -f and -o options were
\* given and whatever a .bandit file supplies as 'format' or 'output', so the
\* loop never runs out of output files; a command line that leaves the two
\* lists with different lengths has made the process exit with status 2
\* before BanditConfig was called, a .bandit file read or a manager made.
OutputListsDiffer ==
    /\ pc # "output_args"
    /\ \/ args.output_format.t # "list"
       \/ args.output_file.t # "list"
       \/ Len(args.output_format.v) # Len(args.output_file.v)
Thm_C12_OneOutputPerFormat ==
    /\ pc = "output" => ~OutputListsDiffer
    /\ pc = "IndexError" => Len(outputs) = 0 /\ "sev_level" \notin DOMAIN locals
    /\ OutputListsDiffer =>
          /\ pc = "exited"
          /\ status = 2
          /\ events = <<>>
          /\ locals.ini_options = None
          /\ mgr = None

\* -f json -f screen -o out.json with a .bandit file that supplies 'output':
\* stdout is added for the screen format and both outputs are written.
Wit_C12_ScreenGetsStdout ==
    /\ pc = "output"
    /\ locals.argv.output_format = List(<<"json", "screen">>)
    /\ locals.argv.output_file = List(<<"out.json">>)
    /\ "output" \in DOMAIN locals.ini_options
    /\ args.output_file = List(<<"out.json", Stdout>>)
    /\ Len(outputs) = 2

\* The options of the model that main() merges from a .bandit file: the
\* attribute of args, the key of the ini file, and the value parse_args leaves
\* when the option is not on the command line.
MergedOptions ==
    {[arg |-> "targets", key |-> "targets", default |-> List(<<>>)],
     [arg |-> "profile", key |-> "profile", default |-> None],
     [arg |-> "severity", key |-> "level", default |-> IntVal(1)],
     [arg |-> "confidence", key |-> "confidence", default |-> IntVal(1)],
     [arg |-> "output_format", key |-> "format", default |-> None],
     [arg |-> "output_file", key |-> "output", default |-> None],
     [arg |-> "baseline", key |-> "baseline", default |-> None]}
GivenOnCommandLine(o) == locals.argv[o.arg] # o.default

\* C13: for every option main() merges from a .bandit file, the command line
\* is preferred over the ini file: the merge never replaces a value given on
\* the command line, and an option that was not given on the command line
\* takes the ini file's value when the ini file has one.
Cex_C13_CommandLineThenIni ==
    [][pc = "ini_options" /\ locals'.ini_options # None =>
          \A o \in MergedOptions :
              /\ GivenOnCommandLine(o) => args'[o.arg] = args[o.arg]
              /\ ~GivenOnCommandLine(o) /\ o.key \in DOMAIN locals'.ini_options =>
                    args'[o.arg] = locals'.ini_options[o.key]]_vars

====
